---------------------------- MODULE Spec2Model ----------------------------
(***************************************************************************)
(* Model of the guest-list check-in application                            *)
(* (src/sistema_de_invitados_app.jsx): the login gate, the dashboard's     *)
(* repository operations, the scanner's scan/confirm handlers and the      *)
(* cards page, over the two persistence backends (localStorage blob and    *)
(* the remote "invitados" table).                                          *)
(*                                                                         *)
(* Conventions.                                                            *)
(*  - A JS string that the program builds or parses (a QR payload) is a    *)
(*    sequence of lexical tokens; '' is the empty sequence.                *)
(*  - A nullable JS value is a sequence of length 0 (null) or 1.           *)
(*  - A handler runs to completion as one action; what the outside world   *)
(*    decides (Math.random, Date, the remote service answering, failing    *)
(*    or throwing, the dynamic import) is an input chosen with \E.         *)
(***************************************************************************)
EXTENDS Integers, Sequences, FiniteSets, TLC

-----------------------------------------------------------------------------
(* Bounds of the model *)

\* most records a store may hold (two seeds plus the added ones)
MaxInvitados == 3
\* last instant of the clock that Date reads
MaxClock == 1

-----------------------------------------------------------------------------
(* Program constants *)

ADMIN_USER == "jesusandia124"
ADMIN_PASS == "andia124"

\* values uid() may return: 'id_' + seven base-36 digits of Math.random()
Ids == {"id_k3f9a2x", "id_0pz81mq", "id_w7c4h5e"}

\* an identifier no uid() call of the model returns
NopeId == "nope"

\* what the operator may type in the login form
Usuarios == {ADMIN_USER, "admin", ""}
Claves == {ADMIN_PASS, ADMIN_USER, ""}

Null == <<>>
Some(x) == <<x>>

-----------------------------------------------------------------------------
(* JSON text as token sequences, JSON.stringify and JSON.parse *)

P(c) == [k |-> "punct", v |-> c]
S(s) == [k |-> "str", v |-> s]
N(n) == [k |-> "num", v |-> n]
J(w) == [k |-> "junk", v |-> w]

\* JS values: t is the type tag, s the scalar's text, m an object's members
JUndefined == [t |-> "undefined", s |-> "", m |-> <<>>]
JNullV == [t |-> "null", s |-> "", m |-> <<>>]
JStr(s) == [t |-> "str", s |-> s, m |-> <<>>]
JNum(n) == [t |-> "num", s |-> n, m |-> <<>>]
JBool(w) == [t |-> "bool", s |-> w, m |-> <<>>]
JObj(members) == [t |-> "obj", s |-> "", m |-> members]
JThrow == [t |-> "throw", s |-> "", m |-> <<>>]

\* JSON.stringify({ id: x }) for a string x
StringifyId(x) == <<P("{"), S("id"), P(":"), S(x), P("}")>>

\* the value a scalar token denotes
ScalarOf(tok) ==
  CASE tok.k = "str" -> JStr(tok.v)
    [] tok.k = "num" -> JNum(tok.v)
    [] tok.k = "lit" /\ tok.v = "null" -> JNullV
    [] tok.k = "lit" -> JBool(tok.v)
    [] OTHER -> JThrow

IsScalarTok(tok) == tok.k \in {"str", "num", "lit"}

\* members of an object body: key : scalar (, key : scalar)*
RECURSIVE ParseMembers(_)
ParseMembers(toks) ==
  IF Len(toks) < 3 THEN [ok |-> FALSE, m |-> <<>>]
  ELSE IF ~(toks[1].k = "str" /\ toks[2] = P(":") /\ IsScalarTok(toks[3]))
    THEN [ok |-> FALSE, m |-> <<>>]
  ELSE IF Len(toks) = 3
    THEN [ok |-> TRUE, m |-> << <<toks[1].v, ScalarOf(toks[3])>> >>]
  ELSE IF toks[4] # P(",") THEN [ok |-> FALSE, m |-> <<>>]
  ELSE LET rest == ParseMembers(SubSeq(toks, 5, Len(toks)))
       IN  IF rest.ok
             THEN [ok |-> TRUE,
                   m |-> << <<toks[1].v, ScalarOf(toks[3])>> >> \o rest.m]
             ELSE [ok |-> FALSE, m |-> <<>>]

\* JSON.parse(raw): the value, or JThrow for a SyntaxError
JSONParse(toks) ==
  IF Len(toks) = 1 /\ IsScalarTok(toks[1]) THEN ScalarOf(toks[1])
  ELSE IF Len(toks) >= 2 /\ toks[1] = P("{") /\ toks[Len(toks)] = P("}")
    THEN IF Len(toks) = 2 THEN JObj(<<>>)
         ELSE LET r == ParseMembers(SubSeq(toks, 2, Len(toks) - 1))
              IN  IF r.ok THEN JObj(r.m) ELSE JThrow
  ELSE JThrow

\* value.key for an object (the last member of that key wins), undefined
\* for a missing key or a primitive
RECURSIVE MemberOf(_, _)
MemberOf(members, key) ==
  IF members = <<>> THEN JUndefined
  ELSE LET last == members[Len(members)]
       IN  IF last[1] = key THEN last[2]
           ELSE MemberOf(SubSeq(members, 1, Len(members) - 1), key)

GetId(val) == IF val.t = "obj" THEN MemberOf(val.m, "id") ELSE JUndefined

\* JS truthiness
Truthy(val) ==
  CASE val.t = "obj" -> TRUE
    [] val.t = "str" -> val.s # ""
    [] val.t = "num" -> val.s # "0"
    [] val.t = "bool" -> val.s = "true"
    [] OTHER -> FALSE

-----------------------------------------------------------------------------
(* Invitee records and the two stores *)

SeedNombre1 == "Jesús Andres Andía Zambrano"
SeedNombre2 == "Andres Sanchez Valentin"

\* what the operator may type as the new invitee's name
NombreInputs == {"", "   ", " Ana Torres "}

\* String.prototype.trim over the names the operator may type
Trim(s) ==
  CASE s = "   " -> ""
    [] s = " Ana Torres " -> "Ana Torres"
    [] OTHER -> s

\* position of a name in the remote store's ORDER BY nombre_completo
NombreRank(n) ==
  CASE n = "Ana Torres" -> 1
    [] n = SeedNombre2 -> 2
    [] n = SeedNombre1 -> 3
    [] OTHER -> 4

\* the form's guest type (the select's default) and its optional DNI
TipoInputs == {"INVITADO"}
DniInputs == {""}

\* the object literal of lines 56, 57 and 255
NewInvitado(id, nombre, tipo, dni) ==
  [id |-> id, nombre_completo |-> nombre, tipo_invitado |-> tipo,
   qr_code |-> <<>>, ingresado |-> FALSE, fecha_ingreso |-> Null, dni |-> dni]

\* new Date().toISOString() at instant t
ToISOString(t) == Some(t)

Range(seq) == {seq[i] : i \in 1..Len(seq)}
IdsOf(seq) == {seq[i].id : i \in 1..Len(seq)}

\* MapQr that appends to the prior payload instead of overwriting it
MapQrAppend(arr, id, payload) ==
  [i \in 1..Len(arr) |->
     IF arr[i].id = id
       THEN [arr[i] EXCEPT !.qr_code = arr[i].qr_code \o payload]
       ELSE arr[i]]

\* arr.map(item => item.id === id ? { ...item, qr_code: payload } : item)
MapQr(arr, id, payload) ==
  [i \in 1..Len(arr) |->
     IF arr[i].id = id THEN [arr[i] EXCEPT !.qr_code = payload] ELSE arr[i]]

\* MapIngreso that forgets the timestamp
MapIngresoSinFecha(arr, id, now) ==
  [i \in 1..Len(arr) |->
     IF arr[i].id = id THEN [arr[i] EXCEPT !.ingresado = TRUE] ELSE arr[i]]

\* arr.map(item => item.id === id ? { ...item, ingresado: true, fecha_ingreso: now } : item)
MapIngreso(arr, id, now) ==
  [i \in 1..Len(arr) |->
     IF arr[i].id = id
       THEN [arr[i] EXCEPT !.ingresado = TRUE, !.fecha_ingreso = now]
       ELSE arr[i]]

\* arr.find(i => i.id === id) for a JS value id: the first record whose id
\* is that string, or null
RECURSIVE Find(_, _)
Find(arr, idv) ==
  IF arr = <<>> THEN Null
  ELSE IF idv.t = "str" /\ Head(arr).id = idv.s THEN Some(Head(arr))
  ELSE Find(Tail(arr), idv)

\* the orders in which select('*').order('nombre_completo') may return rows
IsSortedByNombre(seq) ==
  \A i \in 1..(Len(seq) - 1) :
    NombreRank(seq[i].nombre_completo) <= NombreRank(seq[i + 1].nombre_completo)

Perms(n) == {f \in [1..n -> 1..n] : \A i, j \in 1..n : f[i] = f[j] => i = j}

OrderedRows(rows) ==
  {s \in {[i \in 1..Len(rows) |-> rows[f[i]]] : f \in Perms(Len(rows))} :
     IsSortedByNombre(s)}

\* outcomes of one call to the remote service
Outcomes == {"ok", "error", "throw"}

-----------------------------------------------------------------------------
(* State *)

VARIABLES
  configured,          \* SUPABASE_URL && SUPABASE_KEY
  supabaseClient,      \* the module-level client handle is set
  importable,          \* import('@supabase/supabase-js') resolves
  localStorage,        \* the blob under LOCAL_KEY, parsed
  remoteTable,         \* rows of the remote table "invitados"
  sessionStorage,      \* the item 'admin_user': Null or Some(marker)
  view,                \* the mounted page
  dashInvitados,       \* Dashboard's invitados
  scanInvitados,       \* Scanner's invitados
  result,              \* Scanner's result (Null or Some(raw))
  invData,             \* Scanner's invData (Null or Some(record))
  message,             \* Scanner's message
  cardInvitados,       \* Tarjetas' invitados
  error,               \* Login's error
  clock                \* the instant Date last read

vars == <<configured, supabaseClient, importable, localStorage, remoteTable,
          sessionStorage, view, dashInvitados, scanInvitados, result, invData,
          message, cardInvitados, error, clock>>

\* SUPABASE_URL && SUPABASE_KEY && supabaseClient
UsesRemote == configured /\ supabaseClient

\* loadLocal(): the stored blob parses back to the saved array
loadLocal == localStorage

\* the value of supabaseClient after initSupabaseIfNeeded(); importOk says
\* whether the dynamic import resolves to a module with createClient
initSupabaseIfNeeded(importOk) ==
  IF ~configured THEN supabaseClient
  ELSE IF supabaseClient THEN TRUE
  ELSE importOk

\* what the two uid() calls of the seeding block returned: two of the
\* values of Ids (which two is immaterial, the identifiers being
\* interchangeable)
SeedIds == {<<"id_k3f9a2x", "id_0pz81mq">>}

\* the seeding block that runs when the module is loaded with an empty blob
Seed(id1, id2) ==
  <<NewInvitado(id1, SeedNombre1, "PROMOCIONADO", "00000001"),
    NewInvitado(id2, SeedNombre2, "INVITADO", "00000002")>>

\* The state once the module is loaded (first run: the blob is seeded) and
\* App's mount effect, initSupabaseIfNeeded(), has settled.
Init ==
  /\ configured \in BOOLEAN
  /\ importable \in (IF configured THEN BOOLEAN ELSE {FALSE})
  /\ supabaseClient = (configured /\ importable)
  /\ \E ids \in SeedIds : localStorage = Seed(ids[1], ids[2])
  /\ remoteTable = <<>>
  /\ sessionStorage = Null
  /\ view = "login"
  /\ dashInvitados = <<>>
  /\ scanInvitados = <<>>
  /\ result = Null
  /\ invData = Null
  /\ message = ""
  /\ cardInvitados = <<>>
  /\ error = ""
  /\ clock = 0

-----------------------------------------------------------------------------
(* Remote reads and page mounts *)

\* most rows the remote table may hold
MaxRemote == 2

\* rows of a select('*') with no ORDER BY: any order
AnyOrder(rows) ==
  {[i \in 1..Len(rows) |-> rows[f[i]]] : f \in Perms(Len(rows))}

\* the list Dashboard.fetchInvitados() sets: sel is the select's outcome,
\* data its rows, local what loadLocal() returns
fetchInvitados(sel, data, local) ==
  IF UsesRemote
    THEN IF sel = "ok" THEN data ELSE local
    ELSE local

\* the list the mount effect of Scanner and of Tarjetas sets, with the
\* client handle as left by the awaited initSupabaseIfNeeded()
MountList(client, sel, data, local) ==
  IF configured /\ client
    THEN CASE sel = "ok" -> data
           [] sel = "error" -> <<>>
           [] OTHER -> local
    ELSE local

ResetDashboard == dashInvitados' = <<>>
ResetScanner ==
  /\ scanInvitados' = <<>>
  /\ result' = Null
  /\ invData' = Null
  /\ message' = ""
ResetTarjetas == cardInvitados' = <<>>
ResetLogin == error' = ""

\* JSON.parse(sessionStorage.getItem('admin_user') || 'null')
sessionUser == sessionStorage

Protegidas == {"dashboard", "scanner", "tarjetas"}
Vistas == {"login"} \cup Protegidas

\* <Login /> is mounted with no session: it stays
ShowLogin ==
  /\ view' = "login"
  /\ ResetLogin /\ ResetDashboard /\ ResetScanner /\ ResetTarjetas

\* <Dashboard /> is mounted and its effect runs fetchInvitados()
ShowDashboard(sel) ==
  /\ view' = "dashboard"
  /\ \E data \in OrderedRows(remoteTable) :
       dashInvitados' = fetchInvitados(sel, data, loadLocal)
  /\ ResetLogin /\ ResetScanner /\ ResetTarjetas

\* <Scanner /> is mounted and its effect loads the list
ShowScanner(client, sel) ==
  /\ view' = "scanner"
  /\ \E data \in AnyOrder(remoteTable) :
       scanInvitados' = MountList(client, sel, data, loadLocal)
  /\ result' = Null /\ invData' = Null /\ message' = ""
  /\ ResetLogin /\ ResetDashboard /\ ResetTarjetas

\* <Tarjetas /> is mounted and its effect loads the list
ShowTarjetas(client, sel) ==
  /\ view' = "tarjetas"
  /\ \E data \in AnyOrder(remoteTable) :
       cardInvitados' = MountList(client, sel, data, loadLocal)
  /\ ResetLogin /\ ResetDashboard /\ ResetScanner

\* The router renders the element of path `target`.  A protected page is
\* wrapped in Protected, whose effect navigates to '/' when no session
\* marker is stored (the page's own mount effect has started by then, so
\* the initSupabaseIfNeeded() of Scanner and Tarjetas has been called);
\* Login's effect navigates to /dashboard when a marker is stored.
Render(target, sel) ==
  LET client == IF target \in {"scanner", "tarjetas"}
                  THEN initSupabaseIfNeeded(importable)
                  ELSE supabaseClient
  IN  /\ supabaseClient' = client
      /\ IF target = "login"
           THEN IF sessionUser' # Null THEN ShowDashboard(sel) ELSE ShowLogin
         ELSE IF sessionUser' = Null THEN ShowLogin
         ELSE CASE target = "dashboard" -> ShowDashboard(sel)
                [] target = "scanner" -> ShowScanner(client, sel)
                [] OTHER -> ShowTarjetas(client, sel)

-----------------------------------------------------------------------------
(* App, Login, Topbar *)

\* a credential test that forgets the password
CredencialesSoloUsuario(u, p) == u = ADMIN_USER

\* the credential test of Login.handle
Credenciales(u, p) == u = ADMIN_USER /\ p = ADMIN_PASS

\* Login.handle with the form holding (u, p)
handle(u, p) ==
  /\ view = "login"
  /\ IF Credenciales(u, p)
       THEN /\ sessionStorage' = Some([username |-> u])
            /\ \E sel \in Outcomes : Render("dashboard", sel)
       ELSE /\ error' = "Credenciales incorrectas"
            /\ UNCHANGED <<sessionStorage, supabaseClient, view, dashInvitados,
                           scanInvitados, result, invData, message,
                           cardInvitados>>
  /\ UNCHANGED <<configured, importable, localStorage, remoteTable, clock>>

\* Topbar.logout
logout ==
  /\ view \in Protegidas
  /\ sessionStorage' = Null
  /\ Render("login", "ok")
  /\ UNCHANGED <<configured, importable, localStorage, remoteTable, clock>>

\* a Link of the Topbar, or the browser's history, brings the router to
\* another path; sel is the outcome of the select the mounted page issues
Navigate(target, sel) ==
  /\ target # view
  /\ UNCHANGED sessionStorage
  /\ Render(target, sel)
  /\ UNCHANGED <<configured, importable, localStorage, remoteTable, clock>>

-----------------------------------------------------------------------------
(* Dashboard *)

\* uid(): Math.random() decides which identifier comes back
uid == Ids

\* the instants new Date() may read: time does not run backwards
Now == clock..MaxClock

\* what the Dashboard's handlers leave alone
DashboardFrame ==
  UNCHANGED <<configured, supabaseClient, importable, sessionStorage, view,
              scanInvitados, result, invData, message, cardInvitados, error>>

\* the in-memory list after `await update/insert; await fetchInvitados()`
\* inside one try: a throwing call skips the refresh
AfterRemoteCall(outcome, sel, newRemote) ==
  IF outcome = "throw"
    THEN UNCHANGED dashInvitados
    ELSE \E data \in OrderedRows(newRemote) :
           dashInvitados' = fetchInvitados(sel, data, loadLocal)

\* generarQR that maps over the list the Dashboard holds in memory instead
\* of the collection it re-reads
generarQRFromList(inv, upd, sel) ==
  LET qrPayload == StringifyId(inv.id)
  IN  /\ view = "dashboard"
      /\ IF UsesRemote
           THEN LET newRemote == IF upd = "ok"
                                   THEN MapQr(remoteTable, inv.id, qrPayload)
                                   ELSE remoteTable
                IN  /\ remoteTable' = newRemote
                    /\ AfterRemoteCall(upd, sel, newRemote)
                    /\ UNCHANGED localStorage
           ELSE LET arr == MapQr(dashInvitados, inv.id, qrPayload)
                IN  /\ localStorage' = arr
                    /\ dashInvitados' = arr
                    /\ UNCHANGED remoteTable
      /\ UNCHANGED clock
      /\ DashboardFrame

\* Dashboard.generarQR(inv): upd and sel are the outcomes of the remote
\* update and of the select that follows it
generarQR(inv, upd, sel) ==
  LET qrPayload == StringifyId(inv.id)
  IN  /\ view = "dashboard"
      /\ IF UsesRemote
           THEN LET newRemote == IF upd = "ok"
                                   THEN MapQr(remoteTable, inv.id, qrPayload)
                                   ELSE remoteTable
                IN  /\ remoteTable' = newRemote
                    /\ AfterRemoteCall(upd, sel, newRemote)
                    /\ UNCHANGED localStorage
           ELSE LET arr == MapQr(loadLocal, inv.id, qrPayload)
                IN  /\ localStorage' = arr
                    /\ dashInvitados' = arr
                    /\ UNCHANGED remoteTable
      /\ UNCHANGED clock
      /\ DashboardFrame

\* the fields marcarIngreso and marcar write
Ingreso(arr, id, now) == MapIngreso(arr, id, ToISOString(now))

\* Dashboard.marcarIngreso(inv) at instant t
marcarIngreso(inv, t, upd, sel) ==
  /\ view = "dashboard"
  /\ clock' = t
  /\ IF UsesRemote
       THEN LET newRemote == IF upd = "ok"
                               THEN Ingreso(remoteTable, inv.id, t)
                               ELSE remoteTable
            IN  /\ remoteTable' = newRemote
                /\ AfterRemoteCall(upd, sel, newRemote)
                /\ UNCHANGED localStorage
       ELSE LET arr == Ingreso(loadLocal, inv.id, t)
            IN  /\ localStorage' = arr
                /\ dashInvitados' = arr
                /\ UNCHANGED remoteTable
  /\ DashboardFrame

\* Dashboard.addInvitado() with the form holding (nombre, tipo, dni); id is
\* what uid() returns, ins and sel the outcomes of the remote calls
addInvitado(nombre, tipo, dni, id, ins, sel) ==
  /\ view = "dashboard"
  /\ IF Trim(nombre) = ""
       THEN UNCHANGED <<localStorage, remoteTable, dashInvitados>>
       ELSE LET item == NewInvitado(id, Trim(nombre), tipo, dni)
            IN  IF UsesRemote
                  THEN LET newRemote == IF ins = "ok"
                                          THEN Append(remoteTable, item)
                                          ELSE remoteTable
                       IN  /\ Len(remoteTable) < MaxRemote
                           /\ remoteTable' = newRemote
                           /\ AfterRemoteCall(ins, sel, newRemote)
                           /\ UNCHANGED localStorage
                  ELSE LET arr == Append(loadLocal, item)
                       IN  /\ Len(loadLocal) < MaxInvitados
                           /\ localStorage' = arr
                           /\ dashInvitados' = arr
                           /\ UNCHANGED remoteTable
  /\ UNCHANGED clock
  /\ DashboardFrame

-----------------------------------------------------------------------------
(* Scanner *)

\* what a camera frame may decode to
Textos ==
  {StringifyId(i) : i \in Ids \cup {NopeId}} \cup
  { <<>>,
    <<J("hola")>> }

\* JSON.stringify of the reader's Result object whose text is t
StringifyResult(t) ==
  <<P("{"), S("text"), P(":"), S(""), P(","), S("format"), P(":"), N("11"),
    P("}")>>

ScannerFrame ==
  UNCHANGED <<configured, supabaseClient, importable, sessionStorage, view,
              dashInvitados, cardInvitados, error>>

\* findInvitado that keeps the held record when nothing is found
findInvitadoKeep(idv) ==
  LET inv == Find(scanInvitados, idv)
  IN  IF inv = Null
        THEN /\ UNCHANGED invData
             /\ message' = "Invitado no registrado"
        ELSE /\ invData' = inv
             /\ message' = ""

\* Scanner.findInvitado(id) for a JS value id
findInvitado(idv) ==
  LET inv == Find(scanInvitados, idv)
  IN  IF inv = Null
        THEN /\ invData' = Null
             /\ message' = "Invitado no registrado"
        ELSE /\ invData' = inv
             /\ message' = ""

\* Scanner.handleScan(data): data is a string (isString) or the reader's
\* Result object, text its text
handleScan(isString, text) ==
  /\ view = "scanner"
  /\ IF isString /\ text = <<>>
       THEN UNCHANGED <<result, invData, message>>
       ELSE LET raw == IF isString \/ text # <<>>
                         THEN text
                         ELSE StringifyResult(text)
                parsed == JSONParse(raw)
            IN  /\ result' = Some(raw)
                /\ IF parsed = JThrow
                     THEN /\ message' = "QR inválido"
                          /\ UNCHANGED invData
                     ELSE IF Truthy(parsed) /\ Truthy(GetId(parsed))
                       THEN findInvitado(GetId(parsed))
                       ELSE /\ message' = "QR inválido"
                            /\ UNCHANGED invData
  /\ UNCHANGED <<scanInvitados, localStorage, remoteTable, clock>>
  /\ ScannerFrame

\* the reader's onResult callback with a Result whose text is t:
\* handleScan(result?.text || result)
onResult(t) ==
  IF t # <<>> THEN handleScan(TRUE, t) ELSE handleScan(FALSE, t)

\* the "Marcar como ingresado" button is rendered
MarcarOffered == invData # Null /\ ~invData[1].ingresado

\* marcar that refreshes the list from the remote table as well
marcarRefresh(t, upd) ==
  /\ view = "scanner"
  /\ MarcarOffered
  /\ clock' = t
  /\ IF UsesRemote
       THEN /\ remoteTable' = IF upd = "ok"
                                THEN Ingreso(remoteTable, invData[1].id, t)
                                ELSE remoteTable
            /\ message' = IF upd = "throw"
                            THEN "Error registrando ingreso"
                            ELSE "Ingreso registrado"
            /\ scanInvitados' = remoteTable'
            /\ UNCHANGED <<localStorage, invData>>
       ELSE LET arr == Ingreso(loadLocal, invData[1].id, t)
            IN  /\ localStorage' = arr
                /\ scanInvitados' = arr
                /\ message' = "Ingreso registrado"
                /\ invData' = Some([invData[1] EXCEPT
                                      !.ingresado = TRUE,
                                      !.fecha_ingreso = ToISOString(t)])
                /\ UNCHANGED remoteTable
  /\ UNCHANGED result
  /\ ScannerFrame

\* Scanner.marcar() at instant t, clicked on the rendered button
marcar(t, upd) ==
  /\ view = "scanner"
  /\ MarcarOffered
  /\ clock' = t
  /\ IF UsesRemote
       THEN /\ remoteTable' = IF upd = "ok"
                                THEN Ingreso(remoteTable, invData[1].id, t)
                                ELSE remoteTable
            /\ message' = IF upd = "throw"
                            THEN "Error registrando ingreso"
                            ELSE "Ingreso registrado"
            /\ UNCHANGED <<localStorage, scanInvitados, invData>>
       ELSE LET arr == Ingreso(loadLocal, invData[1].id, t)
            IN  /\ localStorage' = arr
                /\ scanInvitados' = arr
                /\ message' = "Ingreso registrado"
                /\ invData' = Some([invData[1] EXCEPT
                                      !.ingresado = TRUE,
                                      !.fecha_ingreso = ToISOString(t)])
                /\ UNCHANGED remoteTable
  /\ UNCHANGED result
  /\ ScannerFrame

-----------------------------------------------------------------------------
(* Another browsing context of the same application, which shares          *)
(* localStorage and the remote table but none of this page's state         *)

OtherFrame ==
  UNCHANGED <<configured, supabaseClient, importable, sessionStorage, view,
              dashInvitados, scanInvitados, result, invData, message,
              cardInvitados, error>>

\* addInvitado run there, on the backend this deployment uses
OtherAddInvitado(nombre, tipo, dni, id) ==
  /\ Trim(nombre) # ""
  /\ LET item == NewInvitado(id, Trim(nombre), tipo, dni)
     IN  IF UsesRemote
           THEN /\ Len(remoteTable) < MaxRemote
                /\ remoteTable' = Append(remoteTable, item)
                /\ UNCHANGED localStorage
           ELSE /\ Len(loadLocal) < MaxInvitados
                /\ localStorage' = Append(loadLocal, item)
                /\ UNCHANGED remoteTable
  /\ UNCHANGED clock
  /\ OtherFrame

-----------------------------------------------------------------------------
(* The specification *)

Next ==
  \/ \E u \in Usuarios, p \in Claves : handle(u, p)
  \/ logout
  \/ \E target \in Vistas, sel \in Outcomes : Navigate(target, sel)
  \/ \E inv \in Range(dashInvitados), upd, sel \in Outcomes :
       generarQR(inv, upd, sel)
  \/ \E inv \in Range(dashInvitados), t \in Now, upd, sel \in Outcomes :
       marcarIngreso(inv, t, upd, sel)
  \/ \E nombre \in NombreInputs, tipo \in TipoInputs, dni \in DniInputs,
        id \in uid, ins, sel \in Outcomes :
       addInvitado(nombre, tipo, dni, id, ins, sel)
  \/ \E t \in Textos : onResult(t)
  \/ \E t \in Now, upd \in Outcomes : marcar(t, upd)
  \/ \E nombre \in NombreInputs, tipo \in TipoInputs, dni \in DniInputs,
        id \in uid :
       OtherAddInvitado(nombre, tipo, dni, id)

Spec == Init /\ [][Next]_vars

-----------------------------------------------------------------------------
(* Properties *)

StoredRecords == Range(localStorage) \cup Range(remoteTable)

\* C1: in every reachable state, every record of the invitee store has
\* fecha_ingreso null if and only if ingresado is false.
C1_FechaIffIngresado ==
  \A r \in StoredRecords : (r.fecha_ingreso = Null) <=> ~r.ingresado

\* a confirm of the scanner has just admitted an invitee of a store that
\* holds an added record, a generated QR and a pending invitee
C1_Witness ==
  /\ view = "scanner"
  /\ message = "Ingreso registrado"
  /\ Len(localStorage) = 3
  /\ \E r \in Range(localStorage) : r.ingresado /\ r.fecha_ingreso # Null
  /\ \E r \in Range(localStorage) : ~r.ingresado /\ r.fecha_ingreso = Null
  /\ \E r \in Range(localStorage) : r.qr_code # <<>>

\* the timestamps of the records already admitted stay what they are
KeepsFecha(store, storeNext) ==
  \A i \in 1..Len(store) :
    (store[i].ingresado /\ store[i].fecha_ingreso # Null /\ i <= Len(storeNext))
      => storeNext[i].fecha_ingreso = store[i].fecha_ingreso

\* C2: fecha_ingreso is set exactly once: once a record is admitted with a
\* non-null fecha_ingreso, no later step (marcarIngreso of the dashboard,
\* marcar of the scanner) changes its fecha_ingreso.
C2_FechaSetOnce ==
  [][KeepsFecha(localStorage, localStorage')
     /\ KeepsFecha(remoteTable, remoteTable')]_vars

\* the step appends one record to the store and shows it in the dashboard
AddedTo(store, storeNext) ==
  /\ view = "dashboard"
  /\ Len(storeNext) = Len(store) + 1
  /\ SubSeq(storeNext, 1, Len(store)) = store
  /\ dashInvitados' # dashInvitados

\* C3: the record addInvitado stores has an id distinct from the id of every
\* record already in the store.
C3_FreshId ==
  [][(AddedTo(localStorage, localStorage')
        => localStorage'[Len(localStorage')].id \notin IdsOf(localStorage))
     /\ (AddedTo(remoteTable, remoteTable')
        => remoteTable'[Len(remoteTable')].id \notin IdsOf(remoteTable))]_vars

\* the first record of the list with identifier i
FirstWithId(list, i) ==
  list[CHOOSE k \in 1..Len(list) :
         list[k].id = i /\ \A j \in 1..(k - 1) : list[j].id # i]

\* what a scan of the decoded text t must leave
ScanPost(t) ==
  IF \E i \in Ids \cup {NopeId} : t = StringifyId(i)
    THEN \A i \in Ids \cup {NopeId} :
           t = StringifyId(i) =>
             IF i \in IdsOf(scanInvitados)
               THEN /\ invData' = Some(FirstWithId(scanInvitados, i))
                    /\ message' = ""
               ELSE /\ invData' = Null
                    /\ message' = "Invitado no registrado"
    ELSE message' = "QR inválido"

\* C4: a scan of a payload {"id": i} with i in the scanner's list leaves
\* the record of that id held and no message (MATCHED); with i absent from
\* the list it leaves no record held and 'Invitado no registrado'; a scan of
\* a payload that does not parse or has no id leaves 'QR inválido'.
C4_ScanOutcome ==
  [][\A t \in Textos : onResult(t) => ScanPost(t)]_vars

\* a scan has matched a record of the list
C4_Witness ==
  /\ view = "scanner"
  /\ invData # Null
  /\ message = ""
  /\ result = Some(StringifyId(invData[1].id))
  /\ invData[1] \in Range(scanInvitados)

Marker == Some([username |-> ADMIN_USER])

\* C5: a protected page is mounted only with the session marker stored,
\* and the marker is stored only by a login with (ADMIN_USER, ADMIN_PASS),
\* which also navigates to the dashboard; a login with another pair stores
\* nothing and stays on the login page; a protected path entered with no
\* marker stored (never logged in, or after logout) ends on the login page.
C5_AuthGate ==
  [][/\ view' \in Protegidas => sessionStorage' = Marker
     /\ \A u \in Usuarios, p \in Claves :
          handle(u, p) =>
            IF u = "jesusandia124" /\ p = "andia124"
              THEN sessionStorage' = Marker /\ view' = "dashboard"
              ELSE sessionStorage' = sessionStorage /\ view' = "login"
     /\ (sessionStorage' # Null /\ sessionStorage' # sessionStorage)
          => handle("jesusandia124", "andia124")
     /\ logout => (sessionStorage' = Null /\ view' = "login")
     /\ \A target \in Protegidas, sel \in Outcomes :
          (sessionStorage = Null /\ Navigate(target, sel)) => view' = "login"
    ]_vars

\* the operator is logged in and has moved on to the scanner
C5_Witness ==
  /\ view = "scanner"
  /\ sessionStorage = Marker

\* the in-memory list of the mounted page
ListOf(page) ==
  CASE page = "dashboard" -> dashInvitados
    [] page = "scanner" -> scanInvitados
    [] OTHER -> cardInvitados

\* C6: when the remote store is in use and the select of a page's mount
\* fails (it throws or answers with an error), the page's list is the
\* local collection.
C6_ListFallsBack ==
  [][\A target \in Protegidas, sel \in {"error", "throw"} :
       (Navigate(target, sel) /\ UsesRemote' /\ view' = target)
         => ListOf(target)' = localStorage']_vars

\* the store the handlers of this page write
Store == IF UsesRemote THEN remoteTable ELSE localStorage

\* every generated payload parses back to an object whose id is the
\* record's id
DecodesToOwnId(store) ==
  \A r \in Range(store) :
    r.qr_code # <<>> => GetId(JSONParse(r.qr_code)) = JStr(r.id)

\* C7: generarQR gives every stored record of the invitee's id the payload
\* JSON.stringify({id}) whatever the prior payload (a remote update that
\* fails leaves the store as it was), the payload parses back to the
\* record's id, and generarQR on an invitee that already has this payload
\* leaves the store unchanged.
C7_GenerarQRIdempotent ==
  [][\A inv \in Range(dashInvitados), upd, sel \in Outcomes :
       (view' = "dashboard" /\ clock' = clock /\ generarQR(inv, upd, sel)) =>
         LET pay == <<P("{"), S("id"), P(":"), S(inv.id), P("}")>>
             applied == ~UsesRemote \/ upd = "ok"
         IN  /\ Len(Store') = Len(Store)
             /\ applied =>
                  \A i \in 1..Len(Store) :
                    Store[i].id = inv.id => Store'[i].qr_code = pay
             /\ ~applied => Store' = Store
             /\ (\A i \in 1..Len(Store) :
                   Store[i].id = inv.id => Store[i].qr_code = pay)
                  => Store' = Store
             /\ DecodesToOwnId(Store')]_vars

\* the dashboard shows a stored record whose QR has been generated
C7_Witness ==
  /\ view = "dashboard"
  /\ \E r \in Range(Store) :
       /\ r.qr_code = StringifyId(r.id)
       /\ r \in Range(dashInvitados)

\* C8: a confirm of the scanner on a matched invitee of the store, whose
\* write succeeds, admits that invitee in the store and leaves the held
\* record admitted with a non-null fecha_ingreso, so that the confirm
\* button is no longer offered; under the local and the remote backend.
C8_ConfirmUpdatesHeld ==
  [][\A t \in Now, upd \in Outcomes :
       (/\ view = "scanner"
        /\ invData # Null
        /\ invData[1] \in Range(Store)
        /\ ~UsesRemote \/ upd = "ok"
        /\ marcar(t, upd)) =>
         /\ \A r \in Range(Store') :
              r.id = invData[1].id => r.ingresado /\ r.fecha_ingreso # Null
         /\ invData' # Null
         /\ invData'[1].ingresado
         /\ invData'[1].fecha_ingreso # Null
         /\ ~MarcarOffered']_vars

\* C9: while the scanner stays open, no step changes the set of ids of
\* the list it matches against.
C9_SnapshotIds ==
  [][(view = "scanner" /\ view' = "scanner")
       => IdsOf(scanInvitados') = IdsOf(scanInvitados)]_vars

\* C9 as amended: while the scanner stays open the list changes only by a
\* confirm under the local backend, which replaces it by the collection
\* just re-read and rewritten; and a scan matches only a record of the
\* list held.
C9_SnapshotUntilLocalConfirm ==
  [][(view = "scanner" /\ view' = "scanner") =>
       /\ scanInvitados' # scanInvitados =>
            /\ ~UsesRemote
            /\ \E t \in Now, upd \in Outcomes : marcar(t, upd)
            /\ scanInvitados' = localStorage'
       /\ (\E t \in Textos : onResult(t)) =>
            /\ scanInvitados' = scanInvitados
            /\ invData' # invData /\ invData' # Null
                 => invData'[1] \in Range(scanInvitados)]_vars

\* a confirm under the local backend has brought into the list a record
\* added to the store after the scanner was opened
C9_Witness ==
  /\ view = "scanner"
  /\ ~UsesRemote
  /\ message = "Ingreso registrado"
  /\ Len(scanInvitados) = 3
  /\ scanInvitados = localStorage

InvalidMessages == {"QR inválido", "Invitado no registrado"}

\* C10: when the last scan ended INVALID, the scanner holds no record and
\* offers no confirm.
C10_InvalidHoldsNothing ==
  (view = "scanner" /\ message \in InvalidMessages)
    => (invData = Null /\ ~MarcarOffered)

\* the ids a handler may be called with: those issued and one never issued
AnyId == Ids \cup {NopeId}

\* new is old with at most the given fields of the records of this id
\* rewritten: same number of records, same order, same fields, every other
\* record and every other field as it was, and nothing at all when no
\* record has the id
OnlyFields(old, new, id, fields) ==
  /\ Len(new) = Len(old)
  /\ \A i \in 1..Len(old) :
       /\ DOMAIN new[i] = DOMAIN old[i]
       /\ \A f \in DOMAIN old[i] :
            (old[i].id # id \/ f \notin fields) => new[i][f] = old[i][f]
  /\ id \notin IdsOf(old) => new = old

\* C11: under the local backend generarQR, marcarIngreso and the scanner's
\* marcar rewrite the persisted collection with only qr_code (generarQR)
\* or only ingresado and fecha_ingreso (the other two) of the records of
\* the given id changed: every other record, every other field, the
\* number and the order of the records stay as persisted, whatever list
\* the page holds in memory, and the collection is unchanged when no
\* record has the id. (Under the local backend the handlers make no remote
\* call, so the outcomes passed here are not read.)
C11_LocalUpdateFrame ==
  [][~UsesRemote =>
       /\ \A id \in AnyId :
            (view' = "dashboard" /\ clock' = clock
               /\ generarQR([id |-> id], "ok", "ok"))
              => OnlyFields(localStorage, localStorage', id, {"qr_code"})
       /\ \A id \in AnyId, t \in Now :
            (view' = "dashboard" /\ clock' = t
               /\ marcarIngreso([id |-> id], t, "ok", "ok"))
              => OnlyFields(localStorage, localStorage', id,
                            {"ingresado", "fecha_ingreso"})
       /\ \A t \in Now :
            (view' = "scanner" /\ clock' = t /\ marcar(t, "ok"))
              => OnlyFields(localStorage, localStorage', invData[1].id,
                            {"ingresado", "fecha_ingreso"})]_vars

\* under the local backend the Dashboard holds a list that lacks a record
\* of the persisted collection, after a QR was generated and an admission
\* marked in that collection
C11_Witness ==
  /\ ~UsesRemote
  /\ view = "dashboard"
  /\ Len(dashInvitados) < Len(localStorage)
  /\ \E r \in Range(localStorage) :
       r.qr_code = StringifyId(r.id) /\ r.ingresado
  /\ \E r \in Range(localStorage) : r.qr_code = <<>> /\ ~r.ingresado

=============================================================================
